---- MODULE Spec2Model ----
(***************************************************************************)
(* The audit run flow of AuditDashboard (runAudit, fetchLatestAudit, the   *)
(* "Run New Audit" button) as a timed state machine.                       *)
(*                                                                         *)
(* Time is counted in units of one poll interval (PollIntervalMs), from    *)
(* the first accepted run on (nothing is pending before it, so what comes  *)
(* earlier only shifts a behaviour in time).  Timers are urgent: the clock *)
(* does not pass a due timer.  Events that fall into the same time unit    *)
(* are interleaved in any order.  The network is bounded by two budgets:   *)
(* at most MaxFaults calls reject, and the clock advances at most MaxSlow  *)
(* times while a call is in flight.                                        *)
(***************************************************************************)
EXTENDS Integers, Sequences, FiniteSets

\* ---- program constants ----
PollIntervalMs == 5000
AuditTimeoutMs == 30000
\* the 30 s timeout in units of the poll interval
TimeoutTicks == AuditTimeoutMs \div PollIntervalMs

\* ---- bounds of the model ----
MaxRuns == 3
MaxTime == 8
MaxFaults == 1
MaxSlow == 1
MaxNavs == 1

VARIABLES
    now,             \* wall clock, in poll intervals
    isRunningAudit,  \* useState(false), line 72
    auditData,       \* useState(null), line 67: the payload last applied
    backend,         \* state of the audit on the server (behind the API)
    runs,            \* one record per accepted runAudit() invocation
    polls,           \* fetchLatestAudit() calls in flight
    timeouts,        \* pending setTimeout callbacks of lines 107-110
    clickIgnored,    \* the last step was a click on the disabled button
    faults,          \* network calls that rejected so far
    slow,            \* clock advances that left a call in flight so far
    auditFrom,       \* the fetchLatestAudit() call whose response auditData holds
    mounted,         \* the dashboard is rendered (page.tsx line 172)
    websiteId,       \* the websiteId prop (page.tsx line 173)
    navs,            \* navigation events so far
    dashboard,          \* Dashboard (page.tsx): mount state, activeTab, aiStatus
    competitorAnalysis, \* CompetitorAnalysis: analyzing, competitors, its POST
    aiOptimizer,        \* AIOptimizer: keywords, clusters, loading, its request
    websiteManager,     \* WebsiteManager: websites, showAddModal, loading, form
    listPanels,         \* ErrorMonitor and ContentCalendar: list, calls, fetches
    auditIssues,        \* auditData?.issues as filteredIssues reads it
    selectedCategory,   \* useState('all'), line 70
    selectedSeverity    \* useState('all'), line 71

navVars == <<mounted, websiteId, navs>>

\* the state of the audit run flow
auditVars == <<now, isRunningAudit, auditData, backend, runs, polls, timeouts,
               clickIgnored, faults, slow, auditFrom, navVars>>

\* the page and its other panels
pageVars == <<dashboard, competitorAnalysis, aiOptimizer, websiteManager,
              listPanels>>

\* the issue filter of the audit dashboard
filterVars == <<auditIssues, selectedCategory, selectedSeverity>>

otherVars == <<pageVars, filterVars>>

vars == <<now, isRunningAudit, auditData, backend, runs, polls, timeouts,
          clickIgnored, faults, slow, auditFrom, navVars, otherVars>>

\* the websites the dashboard can be shown for
Websites == {1, 2}

\* auditData holds no response yet
NoPoll == [run |-> -1, issuedAt |-> -1, site |-> 0]

\* what GET /api/audits/{id}/latest can carry: the audit that existed before
\* any run, a run still in progress, a completed run, a run that failed
BackendStates == {"previous", "working", "done", "failed"}

\* position of one runAudit() invocation
\*   triggering      awaiting the POST of line 101
\*   triggerRejected the fetch rejected: runAudit threw at line 101
\*   polling         setInterval of line 104 is active
\*   cleared         clearInterval(pollInterval) of line 109 has run
Phases == {"triggering", "triggerRejected", "polling", "cleared"}

RunIds == 1..Len(runs)

\* origin of the mount-time fetchLatestAudit() of the useEffect (line 76)
Mount == 0

\* ---- the page and its other panels: initial component state ----

\* the tabs of the Dashboard (page.tsx lines 124-130, and 'websites' of the
\* snippet at lines 23-29)
Tabs == {"overview", "audit", "optimizations", "errors", "content",
         "competitors", "ai-search", "websites"}

\* number of entries of the messages array (page.tsx lines 48-55)
MessageCount == 6

\* aiStatus.message: 0 is the initial 'Analyzing rankings...', 1..MessageCount
\* are the entries of the messages array
InitialMessage == 0

\* Dashboard just mounted: useState defaults of lines 32-35, and the effect
\* of lines 46-62 has created interval 1
DashboardMounted(tab) ==
    [mounted |-> TRUE, activeTab |-> tab,
     aiStatus |-> [status |-> "active", message |-> InitialMessage],
     intervals |-> {1}, handle |-> 1, effects |-> 1, strict |-> TRUE]

\* CompetitorAnalysis: useState defaults of lines 8-9, no request made
CompetitorAnalysisDefault ==
    [analyzing |-> FALSE, competitors |-> <<>>, post |-> "none"]

\* AIOptimizer: useState defaults of lines 9-11, no request made
AIOptimizerDefault ==
    [keywords |-> "", clusters |-> "null", loading |-> FALSE,
     request |-> "none"]

\* WebsiteManager: useState defaults of lines 22-30, no request made
WebsiteManagerDefault ==
    [websites |-> "empty", showAddModal |-> FALSE, loading |-> FALSE,
     domain |-> "", add |-> "none", fetching |-> FALSE]

\* ErrorMonitor / ContentCalendar: useState([]), no request made
ListPanels == {"errors", "content"}
ListPanelDefault == [list |-> "empty", calls |-> <<>>, fetches |-> {}]

\* the panels not shown hold no state
PanelsDefault ==
    /\ competitorAnalysis = CompetitorAnalysisDefault
    /\ aiOptimizer = AIOptimizerDefault
    /\ websiteManager = WebsiteManagerDefault
    /\ listPanels = [p \in ListPanels |-> ListPanelDefault]

\* the issue filter: auditData is null, both selects on 'all'
FilterDefault ==
    /\ auditIssues = [loaded |-> FALSE, issues |-> <<>>]
    /\ selectedCategory = "all"
    /\ selectedSeverity = "all"

Init ==
    /\ now = 0
    /\ isRunningAudit = FALSE
    /\ auditData = "null"
    /\ backend = "previous"
    /\ runs = <<>>
    /\ polls = {[run |-> Mount, issuedAt |-> 0, site |-> 1]}
    /\ timeouts = {}
    /\ clickIgnored = FALSE
    /\ faults = 0
    /\ slow = 0
    /\ auditFrom = NoPoll
    /\ mounted = TRUE
    /\ websiteId = 1
    /\ navs = 0
    /\ dashboard = [DashboardMounted("audit") EXCEPT !.strict = FALSE]
    /\ PanelsDefault
    /\ FilterDefault

\* ---- the Job record of the tracker, read off the component state ----

\* the component keeps one flag; a finished run is presented as complete
status ==
    IF isRunningAudit THEN "running"
    ELSE IF runs = <<>> THEN "idle" ELSE "succeeded"

\* the component has no state that holds a failure reason
error == "absent"

result == auditData

ActiveIntervals == {r \in RunIds : runs[r].phase = "polling"}

PollsOf(r) == {p \in polls : p.run = r}

\* ---- the server ----

\* the audit started by a run completes or fails on the server
BackendFinish ==
    /\ backend = "working"
    /\ backend' \in {"done", "failed"}
    /\ clickIgnored' = FALSE
    /\ UNCHANGED otherVars
    /\ UNCHANGED <<now, isRunningAudit, auditData, auditFrom, runs, polls,
                   timeouts, faults, slow, navVars>>

\* ---- the component ----

\* runAudit, lines 99-101: set the flag, issue the POST, await it
runAudit ==
    /\ Len(runs) < MaxRuns
    /\ isRunningAudit' = TRUE
    /\ runs' = Append(runs, [phase |-> "triggering", startedAt |-> now,
                             nextTick |-> 0, pollAttempts |-> 0,
                             site |-> websiteId])
    /\ clickIgnored' = FALSE
    /\ UNCHANGED otherVars
    /\ UNCHANGED <<now, auditData, auditFrom, backend, polls, timeouts,
                   faults, slow, navVars>>

\* a click on the button that ignores the disabled flag
RunAuditButtonNoDisable ==
    /\ mounted
    /\ auditData # "null"
    /\ runAudit

\* the "Run New Audit" button, lines 168-171: rendered once auditData is
\* loaded (line 149), disabled while isRunningAudit
RunAuditButton ==
    /\ mounted
    /\ auditData # "null"
    /\ IF isRunningAudit
       THEN /\ clickIgnored' = TRUE
            /\ UNCHANGED otherVars
            /\ UNCHANGED <<now, isRunningAudit, auditData, auditFrom, backend,
                   runs, polls, timeouts, faults, slow, navVars>>
       ELSE runAudit

\* the await of line 101 resolves: the server has started the audit, or it
\* has answered with an error status (fetch resolves on any HTTP status and
\* the response is not looked at); lines 104 and 111 create the interval
TriggerResolve(r) ==
    /\ runs[r].phase = "triggering"
    /\ backend' \in {"working", backend}
    /\ runs' = [runs EXCEPT ![r].phase = "polling", ![r].nextTick = now + 1]
    /\ clickIgnored' = FALSE
    /\ UNCHANGED otherVars
    /\ UNCHANGED <<now, isRunningAudit, auditData, auditFrom, polls,
                   timeouts, faults, slow, navVars>>

\* the await of line 101 rejects (network error, before or after the request
\* reached the server): runAudit throws, nothing after line 101 runs and
\* nothing catches
TriggerReject(r) ==
    /\ runs[r].phase = "triggering"
    /\ faults < MaxFaults
    /\ faults' = faults + 1
    /\ backend' \in {"working", backend}
    /\ runs' = [runs EXCEPT ![r].phase = "triggerRejected"]
    /\ clickIgnored' = FALSE
    /\ UNCHANGED otherVars
    /\ UNCHANGED <<now, isRunningAudit, auditData, auditFrom, polls,
                   timeouts, slow, navVars>>

\* the interval fires: the callback of line 104 calls fetchLatestAudit (105)
Tick(r) ==
    /\ runs[r].phase = "polling"
    /\ runs[r].nextTick <= now
    /\ polls' = polls \cup {[run |-> r, issuedAt |-> now,
                               site |-> runs[r].site]}
    /\ runs' = [runs EXCEPT ![r].nextTick = @ + 1, ![r].pollAttempts = @ + 1]
    /\ clickIgnored' = FALSE
    /\ UNCHANGED otherVars
    /\ UNCHANGED <<now, isRunningAudit, auditData, auditFrom, backend,
                   timeouts, faults, slow, navVars>>

\* a poll callback that also marks the audit as running again
PollResolveMarksRunning(p) ==
    /\ p \in polls
    /\ IF mounted
       THEN auditData' = backend /\ auditFrom' = p
       ELSE UNCHANGED <<auditData, auditFrom>>
    /\ polls' = polls \ {p}
    /\ timeouts' = IF p.run = Mount THEN timeouts
                   ELSE timeouts \cup {[run |-> p.run, due |-> now + TimeoutTicks]}
    /\ isRunningAudit' = (isRunningAudit \/ (mounted /\ p.run # Mount))
    /\ clickIgnored' = FALSE
    /\ UNCHANGED otherVars
    /\ UNCHANGED <<now, backend, runs, faults, slow, navVars>>

\* what GET /api/audits/{id}/latest answers: the state of the latest audit
Latest == backend

\* fetchLatestAudit resolves (lines 82-84): setAuditData(data), which React
\* drops once the component is unmounted; when it was called from the
\* interval callback, line 107 then schedules the timeout
PollResolve(p) ==
    /\ p \in polls
    /\ IF mounted
       THEN auditData' = Latest /\ auditFrom' = p
       ELSE UNCHANGED <<auditData, auditFrom>>
    /\ polls' = polls \ {p}
    /\ timeouts' = IF p.run = Mount THEN timeouts
                   ELSE timeouts \cup {[run |-> p.run, due |-> now + TimeoutTicks]}
    /\ clickIgnored' = FALSE
    /\ UNCHANGED otherVars
    /\ UNCHANGED <<now, isRunningAudit, backend, runs, faults, slow, navVars>>

\* a poll callback that gives the run up when the fetch rejects
PollRejectAborts(p) ==
    /\ p \in polls
    /\ faults < MaxFaults
    /\ faults' = faults + 1
    /\ polls' = polls \ {p}
    /\ isRunningAudit' = IF p.run = Mount \/ ~mounted THEN isRunningAudit
                         ELSE FALSE
    /\ runs' = IF p.run = Mount THEN runs
               ELSE [runs EXCEPT ![p.run].phase =
                        IF @ = "polling" THEN "cleared" ELSE @]
    /\ clickIgnored' = FALSE
    /\ UNCHANGED otherVars
    /\ UNCHANGED <<now, auditData, auditFrom, backend, timeouts, slow,
                   navVars>>

\* fetchLatestAudit rejects (network error at line 82 or a body that is not
\* JSON at line 83): the caller's await throws, line 107 is not reached
PollReject(p) ==
    /\ p \in polls
    /\ faults < MaxFaults
    /\ faults' = faults + 1
    /\ polls' = polls \ {p}
    /\ clickIgnored' = FALSE
    /\ UNCHANGED otherVars
    /\ UNCHANGED <<now, isRunningAudit, auditData, auditFrom, backend,
                   runs, timeouts, slow, navVars>>

\* the callback of lines 107-110 fires (React drops the state update once
\* the component is unmounted; clearInterval acts regardless)
TimeoutFire(t) ==
    /\ t \in timeouts
    /\ t.due <= now
    /\ isRunningAudit' = IF mounted THEN FALSE ELSE isRunningAudit
    /\ runs' = [runs EXCEPT ![t.run].phase =
                    IF @ = "polling" THEN "cleared" ELSE @]
    /\ timeouts' = timeouts \ {t}
    /\ clickIgnored' = FALSE
    /\ UNCHANGED otherVars
    /\ UNCHANGED <<now, auditData, auditFrom, backend, polls, faults, slow,
                   navVars>>

\* ---- time ----

TriggerInFlight(r) == runs[r].phase = "triggering"

CallInFlight == polls # {} \/ \E r \in RunIds : TriggerInFlight(r)

\* the clock advances when no timer is due
Advance ==
    /\ runs # <<>>
    /\ now < MaxTime
    /\ \A t \in timeouts : t.due > now
    /\ \A r \in RunIds : runs[r].phase = "polling" => runs[r].nextTick > now
    /\ IF CallInFlight
       THEN slow < MaxSlow /\ slow' = slow + 1
       ELSE slow' = slow
    /\ now' = now + 1
    /\ clickIgnored' = FALSE
    /\ UNCHANGED otherVars
    /\ UNCHANGED <<isRunningAudit, auditData, auditFrom, backend, runs,
                   polls, timeouts, faults, navVars>>

Next ==
    \/ RunAuditButton
    \/ \E r \in RunIds : TriggerResolve(r)
    \/ \E r \in RunIds : TriggerReject(r)
    \/ \E r \in RunIds : Tick(r)
    \/ \E p \in polls : PollResolve(p)
    \/ \E p \in polls : PollReject(p)
    \/ \E t \in timeouts : TimeoutFire(t)
    \/ BackendFinish
    \/ Advance

Spec == Init /\ [][Next]_vars

\* ---- navigation on the page (page.tsx) ----

\* the user leaves the audit tab (page.tsx line 172): the dashboard unmounts.
\* The useEffect of lines 75-79 returns no cleanup and runAudit keeps its
\* interval handle in a local, so nothing is cancelled.
Unmount ==
    /\ mounted
    /\ navs < MaxNavs
    /\ mounted' = FALSE
    /\ navs' = navs + 1
    /\ clickIgnored' = FALSE
    /\ UNCHANGED otherVars
    /\ UNCHANGED <<now, isRunningAudit, auditData, auditFrom, backend, runs,
                   polls, timeouts, faults, slow, websiteId>>

\* the websiteId prop changes (page.tsx line 173): the component stays
\* mounted with its state, and the useEffect of lines 75-79 fetches the
\* latest audit of the new website
SelectWebsite(w) ==
    /\ mounted
    /\ navs < MaxNavs
    /\ w # websiteId
    /\ websiteId' = w
    /\ navs' = navs + 1
    /\ polls' = polls \cup {[run |-> Mount, issuedAt |-> now, site |-> w]}
    /\ clickIgnored' = FALSE
    /\ UNCHANGED otherVars
    /\ UNCHANGED <<now, isRunningAudit, auditData, auditFrom, backend, runs,
                   timeouts, faults, slow, mounted>>

NextNav ==
    \/ Next
    \/ Unmount
    \/ \E w \in Websites : SelectWebsite(w)

SpecNav == Init /\ [][NextNav]_vars

\* ======================================================================
\* The issue filter of AuditDashboard (filteredIssues, lines 143-147)
\* ======================================================================

\* longest issues array of a payload
MaxIssues == 3

\* categories and severities the issues of a payload carry
IssueCategories == {"technical", "content"}
IssueSeverities == {"critical", "warning"}

\* values of the two selects (lines 347-352 and 360-365), 'all' first
CategoryOptions == {"all", "technical", "content", "performance"}
SeverityOptions == {"all", "critical", "warning", "notice"}

IssueKinds == [category : IssueCategories, severity : IssueSeverities]

IssueLists == UNION {[1..n -> IssueKinds] : n \in 0..MaxIssues}

\* the issues array of a payload: the id tells the issues apart
WithIds(list) ==
    [i \in 1..Len(list) |->
        [id |-> i, category |-> list[i].category,
         severity |-> list[i].severity]]

\* setAuditData(data), line 84: the payload brings its issues array
LoadAudit(list) ==
    /\ mounted
    /\ auditIssues' = [loaded |-> TRUE, issues |-> WithIds(list)]
    /\ UNCHANGED <<auditVars, pageVars, selectedCategory, selectedSeverity>>

\* onChange of the category select, line 344 (rendered once auditData is set)
SelectCategory(c) ==
    /\ mounted
    /\ auditIssues.loaded
    /\ c # selectedCategory
    /\ selectedCategory' = c
    /\ UNCHANGED <<auditVars, pageVars, auditIssues, selectedSeverity>>

\* onChange of the severity select, line 357
SelectSeverity(v) ==
    /\ mounted
    /\ auditIssues.loaded
    /\ v # selectedSeverity
    /\ selectedSeverity' = v
    /\ UNCHANGED <<auditVars, pageVars, auditIssues, selectedCategory>>

\* the callback keeps an issue if either test is the wrong way round
KeepsOnEitherMatch(issue) ==
    IF selectedCategory # "all" /\ issue.category # selectedCategory
          /\ selectedSeverity # "all" /\ issue.severity # selectedSeverity
    THEN FALSE
    ELSE TRUE

\* the callback passed to filter, lines 144-146
KeepsIssue(issue) ==
    IF selectedCategory # "all" /\ issue.category # selectedCategory
    THEN FALSE
    ELSE IF selectedSeverity # "all" /\ issue.severity # selectedSeverity
         THEN FALSE
         ELSE TRUE

\* Array.prototype.filter with that callback: walks the array front to back
RECURSIVE ArrayFilter(_)
ArrayFilter(list) ==
    IF list = <<>> THEN <<>>
    ELSE IF KeepsIssue(Head(list))
         THEN <<Head(list)>> \o ArrayFilter(Tail(list))
         ELSE ArrayFilter(Tail(list))

\* auditData?.issues.filter(...) || [], lines 143-147
filteredIssues ==
    IF auditIssues.loaded THEN ArrayFilter(auditIssues.issues) ELSE <<>>

NextFilter ==
    \/ \E list \in IssueLists : LoadAudit(list)
    \/ \E c \in CategoryOptions : SelectCategory(c)
    \/ \E v \in SeverityOptions : SelectSeverity(v)

SpecFilter == Init /\ [][NextFilter]_vars

\* ======================================================================
\* The Dashboard page (page.tsx) and the panels of its tabs
\* ======================================================================

\* effect runs of the Dashboard (mounts, and strict-mode re-runs)
MaxEffects == 4

\* resolution of Math.random(): the values k / RandomSteps, k < RandomSteps
RandomSteps == 12

\* the Dashboard has just mounted on its first tab; the audit dashboard is
\* not shown, so nothing of the audit run flow is pending
InitPage ==
    /\ now = 0
    /\ isRunningAudit = FALSE
    /\ auditData = "null"
    /\ backend = "previous"
    /\ runs = <<>>
    /\ polls = {}
    /\ timeouts = {}
    /\ clickIgnored = FALSE
    /\ faults = 0
    /\ slow = 0
    /\ auditFrom = NoPoll
    /\ mounted = FALSE
    /\ websiteId = 1
    /\ navs = 0
    /\ dashboard = DashboardMounted("overview")
    /\ PanelsDefault
    /\ FilterDefault

\* everything the panels hold, as a panel that is not shown holds it
NoPanels ==
    /\ competitorAnalysis' = CompetitorAnalysisDefault
    /\ aiOptimizer' = AIOptimizerDefault
    /\ websiteManager' = WebsiteManagerDefault
    /\ listPanels' = [p \in ListPanels |-> ListPanelDefault]

\* React strict mode (next.config.js line 4) re-runs the effect right after
\* the mount: the cleanup of line 61 clears the interval of the first run,
\* then the effect of lines 46-60 creates another one.  State is kept.
StrictModeRemount ==
    /\ dashboard.mounted
    /\ dashboard.strict
    /\ dashboard.effects < MaxEffects
    /\ dashboard' = [dashboard EXCEPT
            !.intervals = (@ \ {dashboard.handle}) \cup {dashboard.effects + 1},
            !.handle = dashboard.effects + 1,
            !.effects = @ + 1,
            !.strict = FALSE]
    /\ UNCHANGED <<auditVars, filterVars, competitorAnalysis, aiOptimizer,
                   websiteManager, listPanels>>

\* Math.floor(Math.random() * messages.length), line 58, as an index 1..
MessageIndex(k) == ((k * MessageCount) \div RandomSteps) + 1

\* the interval callback of lines 47-60
AiStatusTick(h, k) ==
    /\ h \in dashboard.intervals
    /\ dashboard' = [dashboard EXCEPT
            !.aiStatus = IF dashboard.mounted
                         THEN [status |-> "active", message |-> MessageIndex(k)]
                         ELSE @,
            !.strict = FALSE]
    /\ UNCHANGED <<auditVars, filterVars, competitorAnalysis, aiOptimizer,
                   websiteManager, listPanels>>

\* the page goes away and its effect has no cleanup: the interval stays
DashboardUnmountNoCleanup ==
    /\ dashboard.mounted
    /\ dashboard' = [dashboard EXCEPT
            !.mounted = FALSE,
            !.activeTab = "overview",
            !.aiStatus = [status |-> "active", message |-> InitialMessage],
            !.strict = FALSE]
    /\ NoPanels
    /\ UNCHANGED <<auditVars, filterVars>>

\* the page goes away: the cleanup of line 61 clears the interval of the
\* last effect run; the component state and the panels are gone
DashboardUnmount ==
    /\ dashboard.mounted
    /\ dashboard' = [dashboard EXCEPT
            !.mounted = FALSE,
            !.activeTab = "overview",
            !.aiStatus = [status |-> "active", message |-> InitialMessage],
            !.intervals = @ \ {dashboard.handle},
            !.strict = FALSE]
    /\ NoPanels
    /\ UNCHANGED <<auditVars, filterVars>>

\* the page is shown again: useState defaults, and the effect of lines
\* 46-60 creates a new interval
DashboardMount ==
    /\ ~dashboard.mounted
    /\ dashboard.effects < MaxEffects
    /\ dashboard' = [dashboard EXCEPT
            !.mounted = TRUE,
            !.intervals = @ \cup {dashboard.effects + 1},
            !.handle = dashboard.effects + 1,
            !.effects = @ + 1,
            !.strict = TRUE]
    /\ UNCHANGED <<auditVars, filterVars, competitorAnalysis, aiOptimizer,
                   websiteManager, listPanels>>

\* origin of a fetch issued by a useEffect on mount
MountFetch == 0

\* setActiveTab(tab.id), line 134: the panel of the old tab unmounts and its
\* state is gone (a call it left in flight can no longer reach any state);
\* the panel of the new tab mounts and its useEffect issues the mount fetch
SelectTab(t) ==
    /\ dashboard.mounted
    /\ t # dashboard.activeTab
    /\ dashboard' = [dashboard EXCEPT !.activeTab = t, !.strict = FALSE]
    /\ competitorAnalysis' = CompetitorAnalysisDefault
    /\ aiOptimizer' = AIOptimizerDefault
    /\ websiteManager' =
           [WebsiteManagerDefault EXCEPT !.fetching = (t = "websites")]
    /\ listPanels' =
           [p \in ListPanels |->
               [ListPanelDefault EXCEPT
                   !.fetches = IF p = t THEN {MountFetch} ELSE {}]]
    /\ UNCHANGED <<auditVars, filterVars>>

\* ---- CompetitorAnalysis (components/CompetitorAnalysis.tsx) ----

\* the competitor_domains of the request body, line 17
CompetitorDomains == <<"competitor1.com", "competitor2.com">>

Showing(t) == dashboard.mounted /\ dashboard.activeTab = t

\* everything but the CompetitorAnalysis panel
notCompetitor == <<auditVars, filterVars, dashboard, aiOptimizer,
                   websiteManager, listPanels>>

\* click on 'Analyze Competitors' (disabled={analyzing}): lines 11-13
analyzeCompetitors ==
    /\ Showing("competitors")
    /\ ~competitorAnalysis.analyzing
    /\ competitorAnalysis' = [competitorAnalysis EXCEPT
            !.analyzing = TRUE, !.post = "inFlight"]
    /\ UNCHANGED notCompetitor

\* the POST resolves, with an ok or an error status: line 20 runs.  The
\* response is not read and nothing else is requested.
AnalyzeResolve(ok) ==
    /\ Showing("competitors")
    /\ competitorAnalysis.post = "inFlight"
    /\ competitorAnalysis' = [competitorAnalysis EXCEPT
            !.analyzing = FALSE,
            !.post = IF ok THEN "ok" ELSE "refused"]
    /\ UNCHANGED notCompetitor

\* the POST rejects: analyzeCompetitors throws at line 13, line 20 is skipped
AnalyzeReject ==
    /\ Showing("competitors")
    /\ competitorAnalysis.post = "inFlight"
    /\ competitorAnalysis' = [competitorAnalysis EXCEPT !.post = "rejected"]
    /\ UNCHANGED notCompetitor

\* ---- AIOptimizer (components/AIOptimizer.tsx) ----
\* analyzeGEO (lines 34-50) has no caller in the component and is not
\* exported, so the only request the panel makes is that of clusterKeywords.

\* what the keywords textarea can hold
KeywordTexts == {"", "seo"}

\* a response body that parses as JSON: the clusters of a 200 response, or
\* the error object of a response with an error status
ClusterBodies == {"clusters", "errorBody"}

notOptimizer == <<auditVars, filterVars, dashboard, competitorAnalysis,
                  websiteManager, listPanels>>

\* onChange of the textarea, line 83
SetKeywords(k) ==
    /\ Showing("ai-search")
    /\ k # aiOptimizer.keywords
    /\ aiOptimizer' = [aiOptimizer EXCEPT !.keywords = k]
    /\ UNCHANGED notOptimizer

\* click on 'Cluster Keywords' (disabled={loading || !keywords}): lines 14-23
clusterKeywords ==
    /\ Showing("ai-search")
    /\ ~aiOptimizer.loading
    /\ aiOptimizer.keywords # ""
    /\ aiOptimizer' = [aiOptimizer EXCEPT
            !.loading = TRUE, !.request = "inFlight"]
    /\ UNCHANGED notOptimizer

\* the fetch resolves and the body parses: lines 25-26, then finally.  The
\* status of the response is not looked at.
ClusterResolve(body) ==
    /\ Showing("ai-search")
    /\ aiOptimizer.request = "inFlight"
    /\ aiOptimizer' = [aiOptimizer EXCEPT
            !.clusters = body, !.loading = FALSE, !.request = "none"]
    /\ UNCHANGED notOptimizer

\* the fetch rejects or response.json() rejects: catch, then finally
ClusterFail ==
    /\ Showing("ai-search")
    /\ aiOptimizer.request = "inFlight"
    /\ aiOptimizer' = [aiOptimizer EXCEPT
            !.loading = FALSE, !.request = "none"]
    /\ UNCHANGED notOptimizer

\* ---- WebsiteManager (components/WebsiteManager.tsx) ----

\* what GET /websites can return
WebsiteLists == {"empty", "sites"}

\* what the domain input of the form can hold
DomainTexts == {"", "example.com"}

notManager == <<auditVars, filterVars, dashboard, competitorAnalysis,
                aiOptimizer, listPanels>>

\* the mount-time fetchWebsites() resolves: lines 38-40
WebsitesFetchResolve(body) ==
    /\ Showing("websites")
    /\ websiteManager.fetching
    /\ websiteManager' = [websiteManager EXCEPT
            !.websites = body, !.fetching = FALSE]
    /\ UNCHANGED notManager

\* the mount-time fetchWebsites() fails: caught at line 41
WebsitesFetchReject ==
    /\ Showing("websites")
    /\ websiteManager.fetching
    /\ websiteManager' = [websiteManager EXCEPT !.fetching = FALSE]
    /\ UNCHANGED notManager

\* 'Add Website', lines 148 and 228
OpenAddModal ==
    /\ Showing("websites")
    /\ ~websiteManager.showAddModal
    /\ websiteManager' = [websiteManager EXCEPT !.showAddModal = TRUE]
    /\ UNCHANGED notManager

\* click on the backdrop or on Cancel, lines 247 and 319
CancelAddModal ==
    /\ Showing("websites")
    /\ websiteManager.showAddModal
    /\ websiteManager' = [websiteManager EXCEPT !.showAddModal = FALSE]
    /\ UNCHANGED notManager

\* onChange of the domain input, line 267
EditDomain(d) ==
    /\ Showing("websites")
    /\ websiteManager.showAddModal
    /\ d # websiteManager.domain
    /\ websiteManager' = [websiteManager EXCEPT !.domain = d]
    /\ UNCHANGED notManager

\* click on the submit button (disabled={loading || !formData.domain}):
\* setLoading(true) and the POST, lines 107-118 (46-56)
addWebsite ==
    /\ Showing("websites")
    /\ websiteManager.showAddModal
    /\ ~websiteManager.loading
    /\ websiteManager.domain # ""
    /\ websiteManager' = [websiteManager EXCEPT
            !.loading = TRUE, !.add = "post"]
    /\ UNCHANGED notManager

\* the response is ok and the modal is closed without waiting for the list
AddPostOkClosesAtOnce ==
    /\ Showing("websites")
    /\ websiteManager.add = "post"
    /\ websiteManager' = [websiteManager EXCEPT
            !.add = "refetch", !.showAddModal = FALSE, !.domain = ""]
    /\ UNCHANGED notManager

\* the response is ok (and its body parses): await fetchWebsites(), line 123
AddPostOk ==
    /\ Showing("websites")
    /\ websiteManager.add = "post"
    /\ websiteManager' = [websiteManager EXCEPT !.add = "refetch"]
    /\ UNCHANGED notManager

\* the response is not ok (lines 126-128), or, in the later definition, its
\* body does not parse (line 120, caught at 129): finally, line 133
AddPostNotOk ==
    /\ Showing("websites")
    /\ websiteManager.add = "post"
    /\ websiteManager' = [websiteManager EXCEPT
            !.loading = FALSE, !.add = "none"]
    /\ UNCHANGED notManager

\* the POST rejects: caught at line 129 (63), then finally
AddPostReject ==
    /\ Showing("websites")
    /\ websiteManager.add = "post"
    /\ websiteManager' = [websiteManager EXCEPT
            !.loading = FALSE, !.add = "none"]
    /\ UNCHANGED notManager

\* the awaited fetchWebsites() returns, having set the list (line 40) or
\* having caught its own failure (line 41): lines 124-125, then finally
AddRefetchSettled(outcome) ==
    /\ Showing("websites")
    /\ websiteManager.add = "refetch"
    /\ websiteManager' = [websiteManager EXCEPT
            !.websites = IF outcome = "failed" THEN @ ELSE outcome,
            !.showAddModal = FALSE,
            !.domain = "",
            !.loading = FALSE,
            !.add = "none"]
    /\ UNCHANGED notManager

\* ---- ErrorMonitor and ContentCalendar (the same shape: a list, a mount
\* fetch, and an action that POSTs and then refetches the list) ----

\* fixError / generateCalendar invocations of one panel instance
MaxClicks == 2

\* what GET /api/errors/{id} or GET /api/content-calendar/{id} can return
ListBodies == {"empty", "itemsA", "itemsB"}

notListPanels == <<auditVars, filterVars, dashboard, competitorAnalysis,
                   aiOptimizer, websiteManager>>

\* fetchErrors() / fetchContent() resolves: setErrors(data) / setContent(data)
ListFetchResolve(p, o, body) ==
    /\ Showing(p)
    /\ o \in listPanels[p].fetches
    /\ listPanels' = [listPanels EXCEPT
            ![p].list = body, ![p].fetches = @ \ {o}]
    /\ UNCHANGED notListPanels

\* the GET or its response.json() rejects: the call throws, no state is set
ListFetchReject(p, o) ==
    /\ Showing(p)
    /\ o \in listPanels[p].fetches
    /\ listPanels' = [listPanels EXCEPT ![p].fetches = @ \ {o}]
    /\ UNCHANGED notListPanels

\* the handler issues the refetch together with the POST
PanelActionNoAwait(p) ==
    /\ Showing(p)
    /\ Len(listPanels[p].calls) < MaxClicks
    /\ p = "errors" => listPanels[p].list # "empty"
    /\ listPanels' = [listPanels EXCEPT
            ![p].calls = Append(@, "post"),
            ![p].fetches = @ \cup {Len(listPanels[p].calls) + 1}]
    /\ UNCHANGED notListPanels

\* click on 'Auto-fix' of a listed error (fixError, ErrorMonitor.tsx line
\* 23) or on 'Generate Content' (generateCalendar, ContentCalendar.tsx line
\* 21): the POST is sent.  Neither button is ever disabled.
PanelAction(p) ==
    /\ Showing(p)
    /\ Len(listPanels[p].calls) < MaxClicks
    /\ p = "errors" => listPanels[p].list # "empty"
    /\ listPanels' = [listPanels EXCEPT ![p].calls = Append(@, "post")]
    /\ UNCHANGED notListPanels

\* the POST resolves (with any status): the handler goes on to
\* fetchErrors() / fetchContent(), lines 24 / 22, without awaiting it
ActionPostResolve(p, i) ==
    /\ Showing(p)
    /\ i \in 1..Len(listPanels[p].calls)
    /\ listPanels[p].calls[i] = "post"
    /\ listPanels' = [listPanels EXCEPT
            ![p].calls[i] = "resolved", ![p].fetches = @ \cup {i}]
    /\ UNCHANGED notListPanels

\* the POST rejects: the handler throws at its await, the refetch line is
\* never reached
ActionPostReject(p, i) ==
    /\ Showing(p)
    /\ i \in 1..Len(listPanels[p].calls)
    /\ listPanels[p].calls[i] = "post"
    /\ listPanels' = [listPanels EXCEPT ![p].calls[i] = "rejected"]
    /\ UNCHANGED notListPanels

\* ---- the page as a whole ----

NextPage ==
    \/ StrictModeRemount
    \/ \E h \in dashboard.intervals, k \in 0..(RandomSteps - 1) :
           AiStatusTick(h, k)
    \/ DashboardUnmount
    \/ DashboardMount
    \/ \E t \in Tabs : SelectTab(t)
    \/ analyzeCompetitors
    \/ \E ok \in BOOLEAN : AnalyzeResolve(ok)
    \/ AnalyzeReject
    \/ \E k \in KeywordTexts : SetKeywords(k)
    \/ clusterKeywords
    \/ \E body \in ClusterBodies : ClusterResolve(body)
    \/ ClusterFail
    \/ \E body \in WebsiteLists : WebsitesFetchResolve(body)
    \/ WebsitesFetchReject
    \/ OpenAddModal
    \/ CancelAddModal
    \/ \E d \in DomainTexts : EditDomain(d)
    \/ addWebsite
    \/ AddPostOk
    \/ AddPostNotOk
    \/ AddPostReject
    \/ \E outcome \in WebsiteLists \cup {"failed"} : AddRefetchSettled(outcome)
    \/ \E p \in ListPanels, o \in 0..MaxClicks, body \in ListBodies :
           ListFetchResolve(p, o, body)
    \/ \E p \in ListPanels, o \in 0..MaxClicks : ListFetchReject(p, o)
    \/ \E p \in ListPanels : PanelAction(p)
    \/ \E p \in ListPanels, i \in 1..MaxClicks : ActionPostResolve(p, i)
    \/ \E p \in ListPanels, i \in 1..MaxClicks : ActionPostReject(p, i)

SpecPage == InitPage /\ [][NextPage]_vars

(***************************************************************************)
(* The claims.  start() is runAudit behind its button, a poll tick is the  *)
(* interval callback, status/result/error are the Job record read off the  *)
(* component state, and the only cancellation of the timer the component   *)
(* has is clearInterval(pollInterval) of line 109.                         *)
(***************************************************************************)

\* nothing is due at the current instant: every timer that had to fire at
\* this time has fired
Quiescent ==
    /\ \A t \in timeouts : t.due > now
    /\ \A r \in ActiveIntervals : runs[r].nextTick > now

TriggerFailed(r) ==
    \/ runs[r].phase = "triggerRejected"
    \/ r = 1 /\ runs[r].phase \in {"polling", "cleared"} /\ backend = "previous"

\* C2 (as claimed): when the trigger call of the only run has failed, the
\* job is failed with an error recorded, no poll timer was created and no
\* status fetch was issued.
C2_TriggerFailureFails ==
    (Len(runs) = 1 /\ TriggerFailed(1)) =>
        /\ status = "failed"
        /\ error # "absent"
        /\ runs[1].phase \notin {"polling", "cleared"}
        /\ runs[1].pollAttempts = 0

\* C3 (as claimed): within the first run the job is succeeded exactly when
\* a status response reporting completion has been applied: it stays
\* running while the responses report not-done and is succeeded, with the
\* done payload as result, from the tick that brings the done response.
C3_SucceedsExactlyOnDone ==
    Len(runs) = 1 => ((status = "succeeded") <=> (result = "done"))

C5_TimeoutFails ==
    (/\ Len(runs) = 1
     /\ runs[1].phase \in {"polling", "cleared"}
     /\ backend = "working"
     /\ Quiescent
     /\ now - runs[1].startedAt > TimeoutTicks) =>
        /\ status = "failed"
        /\ error = "timeout"
        /\ ActiveIntervals = {}

\* C6 (as claimed): a status fetch of a run that resolves after the run's
\* timer was cancelled changes neither status nor result.
C6_NoMutationAfterCancel ==
    [][\A p \in polls :
          (p.run # Mount /\ runs[p.run].phase = "cleared" /\ PollResolve(p)) =>
              /\ status' = status
              /\ result' = result]_vars

\* C7 (as claimed): once a poll response reporting a failed audit has been
\* applied in the first run, the job is failed with the reason recorded and
\* the poll timer is cleared.
C7_BackendFailureFails ==
    (Len(runs) = 1 /\ result = "failed") =>
        /\ status = "failed"
        /\ error # "absent"
        /\ ActiveIntervals = {}

\* C8 (as claimed): the dashboard never has more than one active poll
\* interval.
C8_AtMostOneTimer == Cardinality(ActiveIntervals) <= 1

\* C9 (as claimed): a run never has more than one status poll in flight.
C9_AtMostOnePollInFlight ==
    \A r \in RunIds : Cardinality(PollsOf(r)) <= 1

\* C10: status only moves forward: idle to running, running to succeeded or
\* failed, and a terminal status changes only by an accepted fresh start
\* (a run is added); idle too is left only by an accepted start.
C10_StatusMonotonic ==
    [][/\ (status = "idle" => status' \in {"idle", "running"})
       /\ (status = "running" => status' \in {"running", "succeeded", "failed"})
       /\ (status \in {"succeeded", "failed"} /\ status' # status) =>
              (status' = "running" /\ Len(runs') = Len(runs) + 1)
       /\ (status = "idle" /\ status' = "running") =>
              Len(runs') = Len(runs) + 1]_vars

\* C10 witness: the first run ended, late callbacks of it are still pending,
\* and a fresh start was accepted.
C10_Witness ==
    /\ Len(runs) = 2
    /\ runs[1].phase = "cleared"
    /\ timeouts # {}
    /\ status = "running"

\* C11 (as claimed): once the dashboard is torn down no new poll is issued
\* and nothing is written into the view state.
C11_TeardownCancelsPolling ==
    [][~mounted =>
            /\ polls' \subseteq polls
            /\ auditData' = auditData
            /\ isRunningAudit' = isRunningAudit]_vars

\* C12 (as claimed): whenever status is succeeded or failed the poll timer
\* is cleared: no interval created by runAudit is active.
C12_TerminalMeansTimerCleared ==
    status \in {"succeeded", "failed"} => ActiveIntervals = {}

\* C13 (as claimed): cancelling the timer (the callback around
\* clearInterval, the component's only cancellation) leaves the run without
\* an active timer and leaves status, result and the attempt counts as they
\* were; cancelling a run whose timer is already cleared changes nothing.
C13_CancelOnlyClearsTimer ==
    [][\A t \in timeouts : TimeoutFire(t) =>
            /\ t.run \notin ActiveIntervals'
            /\ status' = status
            /\ result' = result
            /\ \A r \in RunIds : runs'[r].pollAttempts = runs[r].pollAttempts
            /\ (runs[t.run].phase = "cleared" => runs' = runs)]_vars

\* C14 (as claimed): a poll result or a timeout callback of a run started
\* for another website than the one shown changes neither the data held by
\* the view nor its running flag.
C14_WebsitesIndependent ==
    [][/\ \A p \in polls :
              (p.run \in RunIds /\ p.site # websiteId /\ PollResolve(p)) =>
              /\ auditData' = auditData
              /\ auditFrom' = auditFrom
              /\ isRunningAudit' = isRunningAudit
       /\ \A t \in timeouts :
              (runs[t.run].site # websiteId /\ TimeoutFire(t)) =>
                  isRunningAudit' = isRunningAudit]_vars

\* C15 (as claimed, in the form a finite run refutes): a job that is
\* running still has something pending that can end it: a trigger in
\* flight, an active interval, a poll in flight or a timeout.  A running
\* job with nothing pending never leaves the running state.
C15_RunningHasPendingWork ==
    isRunningAudit =>
        \/ \E r \in RunIds : TriggerInFlight(r)
        \/ ActiveIntervals # {}
        \/ polls # {}
        \/ timeouts # {}

\* C16 (as claimed): the job goes from running to succeeded only when the
\* status response held by the view reports the audit as done.
C16_SucceededOnlyOnReportedDone ==
    [][(status = "running" /\ status' = "succeeded") => result = "done"]_vars

\* C17 (as claimed): when a job has ended in failure (its trigger rejected,
\* or a status response reported the audit as failed) the state the view
\* reads holds an error.
C17_FailuresCarryError ==
    (\/ \E r \in RunIds : runs[r].phase = "triggerRejected"
     \/ result = "failed") => error # "absent"

\* C18 (as claimed): no status poll is issued for a run whose trigger call
\* has not completed successfully.
C18_NoPollWithoutTriggerSuccess ==
    \A r \in RunIds :
        TriggerFailed(r) => (runs[r].pollAttempts = 0 /\ PollsOf(r) = {})

\* C19 (as claimed): a start accepted after an earlier run begins from
\* defaults: result is reset, the new run has no attempts and starts now,
\* and no callback or request of the earlier run is left pending.
C19_FreshStartResets ==
    [][(Len(runs) >= 1 /\ Len(runs') = Len(runs) + 1) =>
            /\ result' = "null"
            /\ runs'[Len(runs')].pollAttempts = 0
            /\ runs'[Len(runs')].startedAt = now
            /\ timeouts' = {}
            /\ polls' = {}]_vars

\* C20 (as claimed): a response is applied only if its poll was issued no
\* earlier than the poll whose response the view already holds.
C20_AppliedInIssueOrder ==
    [][\A p \in polls : (mounted /\ PollResolve(p)) =>
            p.issuedAt >= auditFrom.issuedAt]_vars

\* C21 (as claimed): a run owns no timer besides its poll interval (no
\* setTimeout callback is ever pending), and the job stops being running
\* only as part of a poll tick.
C21_TimeoutOnlyInsideTick ==
    [][/\ timeouts' = {}
       /\ (isRunningAudit /\ ~isRunningAudit') =>
              \E r \in RunIds : Tick(r)]_vars

\* C23 (as claimed): isRunningAudit is true whenever a run is still
\* triggering or its poll interval is still active.
C23_RunningWhileIntervalActive ==
    (\E r \in RunIds : runs[r].phase \in {"triggering", "polling"})
        => isRunningAudit

\* C24 (as claimed): once auditData holds the response for the website
\* shown, a response of a mount fetch issued for another website never
\* replaces it.
C24_LateMountResponseIgnored ==
    [][\A p \in polls :
            (/\ p.run = Mount
             /\ PollResolve(p)
             /\ auditFrom # NoPoll
             /\ auditFrom.site = websiteId) => auditFrom'.site = websiteId]_vars

\* an issue passes the two selects
Selected(issue) ==
    /\ selectedCategory = "all" \/ issue.category = selectedCategory
    /\ selectedSeverity = "all" \/ issue.severity = selectedSeverity

\* C29: filteredIssues holds exactly the issues of auditData.issues that
\* pass both selects ('all' passes everything), in their original order;
\* with both selects on 'all' it is the full list, and it is never longer
\* than the full list.
C29_FilteredIssuesExact ==
    LET all == auditIssues.issues
        f == filteredIssues
    IN  /\ \A k \in 1..Len(f) :
              Selected(f[k]) /\ f[k].id \in 1..Len(all) /\ f[k] = all[f[k].id]
        /\ \A k \in 1..(Len(f) - 1) : f[k].id < f[k + 1].id
        /\ \A i \in 1..Len(all) :
              Selected(all[i]) => \E k \in 1..Len(f) : f[k] = all[i]
        /\ (selectedCategory = "all" /\ selectedSeverity = "all") => f = all
        /\ Len(f) <= Len(all)

\* both selects narrow the list, and what is kept is neither a prefix of
\* the issues nor all of them
C29_Witness ==
    /\ auditIssues.loaded
    /\ selectedCategory # "all"
    /\ selectedSeverity # "all"
    /\ Len(auditIssues.issues) = 3
    /\ Len(filteredIssues) = 2
    /\ filteredIssues[1].id = 1
    /\ filteredIssues[2].id = 3

\* C22 (as claimed): after a competitor analysis whose trigger succeeded,
\* the competitors list held by the view holds the result: an entry for
\* each domain the analysis was asked for.
C22_CompetitorsReflectResult ==
    (competitorAnalysis.post = "ok" /\ ~competitorAnalysis.analyzing)
        => Len(competitorAnalysis.competitors) = Len(CompetitorDomains)

\* C25 (as claimed, in the form a finite run refutes): analyzing is true
\* only while the POST of analyzeCompetitors is in flight, so a POST that
\* has resolved or rejected leaves the button enabled.
C25_AnalyzingOnlyWhileInFlight ==
    competitorAnalysis.analyzing => competitorAnalysis.post = "inFlight"

\* C26 (as claimed): loading is true exactly while the request is in
\* flight, and a request that fails (the fetch rejects, the body does not
\* parse, or the server answers with an error status) leaves clusters as it
\* was.
C26_LoadingAndClustersOnFailure ==
    [][/\ aiOptimizer'.loading <=> (aiOptimizer'.request = "inFlight")
       /\ (ClusterFail \/ ClusterResolve("errorBody"))
              => aiOptimizer'.clusters = aiOptimizer.clusters]_vars

\* C27: while the panel stays shown, addWebsite closes the modal and resets
\* the form only when the POST was ok, and only in the step in which the
\* awaited refetch of the list has returned (Cancel and an edit of the form
\* are the user's); a response that is not ok and a network error leave
\* showAddModal and the form as they were; loading is true exactly while
\* the call is under way, so it is false whenever the call has ended.
C27_AddWebsiteClosesOnlyAfterRefetch ==
    [][/\ (/\ Showing("websites")
           /\ dashboard' = dashboard
           /\ websiteManager.add # "none"
           /\ ~CancelAddModal
           /\ ~EditDomain("")
           /\ \/ websiteManager.showAddModal /\ ~websiteManager'.showAddModal
              \/ websiteManager.domain # "" /\ websiteManager'.domain = "")
          => (websiteManager.add = "refetch" /\ websiteManager'.add = "none")
       /\ (AddPostNotOk \/ AddPostReject) =>
              /\ websiteManager'.showAddModal = websiteManager.showAddModal
              /\ websiteManager'.domain = websiteManager.domain
              /\ ~websiteManager'.loading
       /\ websiteManager'.loading <=> (websiteManager'.add # "none")]_vars

\* an ok POST whose refetch has returned while the mount fetch is still in
\* flight: the list is the refetched one, the modal is closed, the form is
\* reset and loading is false
C27_Witness ==
    /\ Showing("websites")
    /\ websiteManager.websites = "sites"
    /\ websiteManager.fetching
    /\ ~websiteManager.showAddModal
    /\ websiteManager.domain = ""
    /\ ~websiteManager.loading
    /\ websiteManager.add = "none"

\* C28: while the Dashboard is mounted at most one aiStatus interval is
\* active, after it unmounts none is, through any sequence of mounts,
\* strict-mode re-runs and unmounts; a tick sets aiStatus.message to one of
\* the six messages and leaves status 'active'.
C28_OneAiStatusInterval ==
    [][/\ dashboard'.mounted => Cardinality(dashboard'.intervals) <= 1
       /\ ~dashboard'.mounted => dashboard'.intervals = {}
       /\ \A h \in dashboard.intervals, k \in 0..(RandomSteps - 1) :
              AiStatusTick(h, k) =>
                  /\ dashboard'.aiStatus.message \in 1..MessageCount
                  /\ dashboard'.aiStatus.status = "active"]_vars

\* the page has been mounted, re-run by strict mode, unmounted and mounted
\* again; its one interval has ticked and set the last of the messages
C28_Witness ==
    /\ dashboard.mounted
    /\ dashboard.effects >= 3
    /\ Cardinality(dashboard.intervals) = 1
    /\ dashboard.aiStatus.message = MessageCount

\* C30: in ErrorMonitor and ContentCalendar the refetch of an invocation is
\* issued in the step in which its POST resolves, so no refetch of an
\* invocation is in flight while its POST is; an invocation whose POST
\* rejects issues no refetch and leaves the list as it was.
C30_RefetchOnlyAfterPost ==
    [][\A p \in ListPanels :
         /\ \A i \in listPanels'[p].fetches \ {MountFetch} :
                /\ i \in 1..Len(listPanels'[p].calls)
                /\ listPanels'[p].calls[i] = "resolved"
         /\ \A i \in 1..Len(listPanels[p].calls) :
                ActionPostReject(p, i) =>
                    /\ listPanels'[p].list = listPanels[p].list
                    /\ listPanels'[p].fetches = listPanels[p].fetches]_vars

\* one invocation was rejected and issued nothing, another resolved and its
\* refetch replaced the list
C30_Witness ==
    \E p \in ListPanels :
        /\ Showing(p)
        /\ Len(listPanels[p].calls) = 2
        /\ listPanels[p].calls[1] = "rejected"
        /\ listPanels[p].calls[2] = "resolved"
        /\ listPanels[p].fetches = {}
        /\ listPanels[p].list = "itemsB"

TypeOK ==
    /\ now \in 0..MaxTime
    /\ isRunningAudit \in BOOLEAN
    /\ auditData \in BackendStates \cup {"null"}
    /\ backend \in BackendStates
    /\ Len(runs) <= MaxRuns
    /\ \A r \in RunIds : runs[r].phase \in Phases
    /\ \A p \in polls : p.run \in {Mount} \cup RunIds
    /\ \A t \in timeouts : t.run \in RunIds
    /\ clickIgnored \in BOOLEAN
    /\ faults \in 0..MaxFaults
    /\ slow \in 0..MaxSlow
    /\ auditFrom.run \in {NoPoll.run, Mount} \cup RunIds
    /\ mounted \in BOOLEAN
    /\ websiteId \in Websites
    /\ navs \in 0..MaxNavs
    /\ dashboard.mounted \in BOOLEAN
    /\ dashboard.activeTab \in Tabs
    /\ dashboard.aiStatus.status = "active"
    /\ dashboard.aiStatus.message \in {InitialMessage} \cup 1..MessageCount
    /\ dashboard.intervals \subseteq 1..MaxEffects
    /\ dashboard.effects \in 1..MaxEffects
    /\ competitorAnalysis.analyzing \in BOOLEAN
    /\ competitorAnalysis.post \in {"none", "inFlight", "ok", "refused", "rejected"}
    /\ aiOptimizer.keywords \in KeywordTexts
    /\ aiOptimizer.clusters \in {"null"} \cup ClusterBodies
    /\ aiOptimizer.loading \in BOOLEAN
    /\ websiteManager.websites \in WebsiteLists
    /\ websiteManager.add \in {"none", "post", "refetch"}
    /\ websiteManager.domain \in DomainTexts
    /\ \A p \in ListPanels :
          /\ listPanels[p].list \in ListBodies
          /\ Len(listPanels[p].calls) <= MaxClicks
          /\ listPanels[p].fetches \subseteq 0..MaxClicks
    /\ auditIssues.loaded \in BOOLEAN
    /\ Len(auditIssues.issues) <= MaxIssues
    /\ selectedCategory \in CategoryOptions
    /\ selectedSeverity \in SeverityOptions
====
